---- MODULE Spec2Model ----
(***************************************************************************)
(* A model of the insider dashboard's data pipeline: the calculation       *)
(* utilities (parseJSON, parseLLMCall, calculatePnL, getHoldingDays) and   *)
(* the useLLMCalls1_5 hook (fetch, rate-limited refresh, filtered view).   *)
(*                                                                         *)
(* JavaScript values are records [t, n, d, txt, items]:                    *)
(*   t      the kind: "null", "undefined", "number", "NaN", "Infinity",    *)
(*          "string" or "array";                                           *)
(*   n / d  a number's value as the reduced fraction n/d (d > 0); for      *)
(*          "Infinity" n is the sign;                                      *)
(*   txt    a string's text, as the sequence of its lexical tokens;        *)
(*   items  an array's elements.                                           *)
(* Numbers are exact rationals: the rounding of IEEE-754 doubles is not    *)
(* modelled.                                                               *)
(***************************************************************************)
EXTENDS Integers, Sequences, FiniteSets, TLC

VARIABLES
    call,               \* the record handed to the utility under evaluation
    now,                \* the current instant read by new Date()
    result,             \* the completion of the utility
    again,              \* the completion of a second parseLLMCall on the result
    pc,                 \* "start", "once", "twice", "done"; "hook" in the hook's runs
    phase,              \* the consumer: "created", "mounted" or "unmounted"
    allCalls,           \* useState: the held collection
    loading,            \* useState: the loading flag
    error,              \* useState: the error message
    filter,             \* useState: the filter mode
    isRefreshDisabled,  \* useState: the refresh-disabled flag
    isMountedRef,       \* useRef: isMountedRef.current
    calls,              \* useMemo: the filtered view
    stats,              \* useMemo: the exposed statistics
    queries,            \* the queries in flight, each with the caller of its fetchCalls
    issued,             \* how many queries were issued so far
    timers,             \* the pending cooldown timers, each by the query of its refresh
    event,              \* the last call, callback or passing of time, with its input
    window,             \* the refreshes called less than REFRESH_DEBOUNCE_MS ago
    latest,             \* the load that was started last, and its outcome
    store,              \* the data the store can answer a query with
    theme,              \* ThemeProvider useState: the theme
    themePhase,         \* the provider: "none", "rendered" or "mounted"
    defaultTheme,       \* the provider's defaultTheme prop
    storage,            \* localStorage: the value under each key
    storageMode,        \* localStorage: "ok", "readonly" (setItem throws) or "blocked"
    darkClass,          \* whether document.documentElement has the class 'dark'
    toggles,            \* how many toggleTheme calls the provider took
    saved               \* the theme the last toggleTheme call gave to saveTheme

utilVars == <<call, now, result, again, pc>>

hookVars == <<phase, allCalls, loading, error, filter, isRefreshDisabled,
              isMountedRef, calls, stats, queries, issued, timers, event, window,
              latest>>

themeVars == <<theme, themePhase, defaultTheme, storage, storageMode, darkClass,
               toggles, saved>>

\* What no call of the hook changes.
idleVars == <<utilVars, store, themeVars>>

vars == <<call, now, result, again, pc, phase, allCalls, loading, error, filter,
          isRefreshDisabled, isMountedRef, calls, stats, queries, issued, timers,
          event, window, latest, store, theme, themePhase, defaultTheme, storage,
          storageMode, darkClass, toggles, saved>>

----------------------------------------------------------------------------
(* JavaScript values *)

JsVal(t, n, d, txt, items) == [t |-> t, n |-> n, d |-> d, txt |-> txt, items |-> items]

Null == JsVal("null", 0, 1, <<>>, <<>>)

Undefined == JsVal("undefined", 0, 1, <<>>, <<>>)

NaN == JsVal("NaN", 0, 1, <<>>, <<>>)

Infinity(sign) == JsVal("Infinity", sign, 1, <<>>, <<>>)

Abs(x) == IF x < 0 THEN -x ELSE x

RECURSIVE Gcd(_, _)
Gcd(a, b) == IF b = 0 THEN a ELSE Gcd(b, a % b)

\* The number n/d, reduced, with a positive denominator (d # 0).
Rat(n, d) ==
    LET g == Gcd(Abs(n), Abs(d))
        s == IF d < 0 THEN -1 ELSE 1
    IN  JsVal("number", (s * n) \div g, Abs(d) \div g, <<>>, <<>>)

Num(n) == JsVal("number", n, 1, <<>>, <<>>)

Str(txt) == JsVal("string", 0, 1, txt, <<>>)

Arr(items) == JsVal("array", 0, 1, <<>>, items)

EmptyArr == Arr(<<>>)


\* !v : null, undefined, 0, NaN and the empty string are falsy.
Falsy(v) ==
    \/ v.t \in {"null", "undefined", "NaN"}
    \/ v.t = "number" /\ v.n = 0
    \/ v.t = "string" /\ v.txt = <<>>

\* v ?? dflt
Coalesce(v, dflt) == IF v.t \in {"null", "undefined"} THEN dflt ELSE v

\* a - b, a + b, a / b and a * b on numbers (IEEE-754's special values kept).
JsSub(a, b) ==
    IF a.t = "number" /\ b.t = "number"
    THEN Rat(a.n * b.d - b.n * a.d, a.d * b.d)
    ELSE NaN

\* a + b on numbers.
JsAdd(a, b) ==
    IF a.t = "number" /\ b.t = "number"
    THEN Rat(a.n * b.d + b.n * a.d, a.d * b.d)
    ELSE NaN

JsDiv(a, b) ==
    IF a.t # "number" \/ b.t # "number" THEN NaN
    ELSE IF b.n = 0
         THEN IF a.n = 0 THEN NaN ELSE Infinity(IF a.n > 0 THEN 1 ELSE -1)
         ELSE Rat(a.n * b.d, a.d * b.n)

JsMul(a, b) ==
    IF a.t = "number" /\ b.t = "number" THEN Rat(a.n * b.n, a.d * b.d)
    ELSE IF a.t = "Infinity" /\ b.t = "number" /\ b.n # 0
         THEN Infinity(IF b.n > 0 THEN a.n ELSE -a.n)
         ELSE NaN

\* a < b on finite numbers.
NumLess(a, b) == a.n * b.d < b.n * a.d

\* A completion: a returned value, or a thrown exception.
Normal(v) == [threw |-> FALSE, value |-> v]

Thrown == [threw |-> TRUE, value |-> Undefined]

----------------------------------------------------------------------------
(* JSON.parse, on a text given as its sequence of tokens.  The grammar is   *)
(* value ::= 1 | null | "a" | [ ] | [ value (, value)* ] ; any other token  *)
(* sequence is a SyntaxError.                                               *)

StringToken == "\"a\""

JsonTokens == {"[", "]", ",", "1", "null", StringToken}

ParseFail == [ok |-> FALSE, value |-> Undefined, next |-> 0]

ParseOk(v, next) == [ok |-> TRUE, value |-> v, next |-> next]

RECURSIVE ParseValue(_, _), ParseElements(_, _, _)
\* The value starting at position i of txt, and the position after it.
ParseValue(txt, i) ==
    IF i > Len(txt) THEN ParseFail
    ELSE CASE txt[i] = "1" -> ParseOk(Num(1), i + 1)
           [] txt[i] = "null" -> ParseOk(Null, i + 1)
           [] txt[i] = StringToken -> ParseOk(Str(<<"a">>), i + 1)
           [] txt[i] = "[" ->
                IF i + 1 <= Len(txt) /\ txt[i + 1] = "]"
                THEN ParseOk(EmptyArr, i + 2)
                ELSE ParseElements(txt, i + 1, <<>>)
           [] OTHER -> ParseFail

\* The elements of an array from position i on, up to its closing bracket.
ParseElements(txt, i, acc) ==
    LET v == ParseValue(txt, i)
    IN  IF ~v.ok \/ v.next > Len(txt) THEN ParseFail
        ELSE IF txt[v.next] = ","
             THEN ParseElements(txt, v.next + 1, Append(acc, v.value))
             ELSE IF txt[v.next] = "]"
                  THEN ParseOk(Arr(Append(acc, v.value)), v.next + 1)
                  ELSE ParseFail

\* JSON.parse(txt): the value, or a thrown SyntaxError.
JsonParse(txt) ==
    LET r == ParseValue(txt, 1)
    IN  IF r.ok /\ r.next = Len(txt) + 1 THEN Normal(r.value) ELSE Thrown

----------------------------------------------------------------------------
(* lib/calculations *)

\* parseJSON without its try/catch.
parseJSON_NoCatch(value, defaultValue) ==
    IF value.t = "string"
    THEN JsonParse(value.txt)
    ELSE Normal(Coalesce(value, defaultValue))

\* parseJSON<T>(value, defaultValue)
parseJSON(value, defaultValue) ==
    LET tried == IF value.t = "string"
                 THEN JsonParse(value.txt)
                 ELSE Normal(Coalesce(value, defaultValue))
    IN  IF tried.threw THEN Normal(defaultValue) ELSE tried

ArrayFields == {"transaction_dates", "insider_names", "market_patterns", "insider_prices_json"}

\* parseLLMCall(call): the spread of call with the four array fields parsed.
parseLLMCall(c) ==
    LET parsed == [f \in ArrayFields |-> parseJSON(c[f], EmptyArr)]
    IN  IF \E f \in ArrayFields : parsed[f].threw
        THEN Thrown
        ELSE Normal([f \in DOMAIN c |->
                        IF f \in ArrayFields THEN parsed[f].value ELSE c[f]])

\* calculatePnL testing entry_price against null only.
calculatePnL_NullCheckOnly(c) ==
    IF Falsy(c.current_price) \/ c.entry_price.t = "null"
    THEN Null
    ELSE JsMul(JsDiv(JsSub(c.current_price, c.entry_price), c.entry_price), Num(100))

\* calculatePnL without the subtraction of the entry price.
calculatePnL_Ratio(c) ==
    IF Falsy(c.current_price) \/ Falsy(c.entry_price)
    THEN Null
    ELSE JsMul(JsDiv(c.current_price, c.entry_price), Num(100))

\* calculatePnL(call): the return in percent, or null.
calculatePnL(c) ==
    IF Falsy(c.current_price) \/ Falsy(c.entry_price)
    THEN Null
    ELSE JsMul(JsDiv(JsSub(c.current_price, c.entry_price), c.entry_price), Num(100))

\* Time is counted in ticks of one hour (3 600 000 ms): the 1000 * 60 * 60 * 24
\* ms of a day are 24 ticks.
TicksPerDay == 24

\* The number a token of digits denotes, -1 for any other token.
TokenNumber(tok) ==
    CASE tok = "2024" -> 2024
      [] tok = "2025" -> 2025
      [] tok = "00" -> 0
      [] tok = "01" -> 1
      [] tok = "02" -> 2
      [] tok = "12" -> 12
      [] tok = "13" -> 13
      [] tok = "15" -> 15
      [] tok = "28" -> 28
      [] tok = "32" -> 32
      [] OTHER -> -1

IsLeapYear(y) == (y % 4 = 0 /\ y % 100 # 0) \/ y % 400 = 0

DaysInMonth(y, m) ==
    IF m = 2 THEN (IF IsLeapYear(y) THEN 29 ELSE 28)
    ELSE IF m \in {4, 6, 9, 11} THEN 30 ELSE 31

\* The days from 1970-01-01 to y-m-d in the proleptic Gregorian calendar.
DaysFromCivil(y, m, d) ==
    LET yy  == IF m <= 2 THEN y - 1 ELSE y
        era == yy \div 400
        yoe == yy - era * 400
        mp  == IF m > 2 THEN m - 3 ELSE m + 9
        doy == (153 * mp + 2) \div 5 + d - 1
        doe == yoe * 365 + yoe \div 4 - yoe \div 100 + doy
    IN  era * 146097 + doe - 719468

\* new Date(text).getTime() for a date-only text YYYY-MM-DD (midnight UTC),
\* NaN (an Invalid Date) for a text that is no date.
DateGetTime(txt) ==
    IF Len(txt) = 5 /\ txt[2] = "-" /\ txt[4] = "-"
    THEN LET y == TokenNumber(txt[1])
             m == TokenNumber(txt[3])
             d == TokenNumber(txt[5])
         IN  IF y >= 1970 /\ m \in 1..12 /\ d >= 1 /\ d <= DaysInMonth(y, m)
             THEN Num(DaysFromCivil(y, m, d) * TicksPerDay)
             ELSE NaN
    ELSE NaN

\* Math.abs and Math.ceil
JsAbs(a) ==
    IF a.t = "number" THEN Rat(Abs(a.n), a.d)
    ELSE IF a.t = "Infinity" THEN Infinity(1) ELSE NaN

JsCeil(a) == IF a.t = "number" THEN Num(-((-a.n) \div a.d)) ELSE a

\* getHoldingDays(call), with today the instant new Date() reads.
getHoldingDays(c, today) ==
    IF Falsy(c.entry_date)
    THEN Null
    ELSE LET entryTime == DateGetTime(c.entry_date.txt)
             diffTime  == JsAbs(JsSub(Num(today), entryTime))
         IN  JsCeil(JsDiv(diffTime, Num(TicksPerDay)))

----------------------------------------------------------------------------
(* lib/calculations: calculateStats *)

\* a > b; false when either side is NaN.
JsGreater(a, b) ==
    CASE a.t = "number" /\ b.t = "number" -> NumLess(b, a)
      [] a.t = "Infinity" /\ b.t = "number" -> a.n > 0
      [] a.t = "number" /\ b.t = "Infinity" -> b.n < 0
      [] OTHER -> FALSE

\* nums.reduce((sum, x) => sum + x, 0)
RECURSIVE SumSeq(_)
SumSeq(nums) ==
    IF nums = <<>> THEN Num(0)
    ELSE JsAdd(SumSeq(SubSeq(nums, 1, Len(nums) - 1)), nums[Len(nums)])

\* calls.filter((c) => calculatePnL(c) !== null)
CallsWithPnL(cs) == SelectSeq(cs, LAMBDA c : calculatePnL(c) # Null)

\* callsWithPnL.filter((c) => (calculatePnL(c) ?? 0) > 0)
WinningCalls(withPnL) ==
    SelectSeq(withPnL, LAMBDA c : JsGreater(Coalesce(calculatePnL(c), Num(0)), Num(0)))

\* The sum of the returns over the number of records, with no test of that
\* number.
MeanPnL(withPnL) ==
    JsDiv(SumSeq([i \in 1..Len(withPnL) |-> Coalesce(calculatePnL(withPnL[i]), Num(0))]),
          Num(Len(withPnL)))

AvgPnL(withPnL) == IF Len(withPnL) > 0 THEN MeanPnL(withPnL) ELSE Num(0)

\* calls.reduce((sum, call) => sum + (call.total_transaction_value ?? 0), 0)
TotalValue(cs) ==
    SumSeq([i \in 1..Len(cs) |-> Coalesce(cs[i].total_transaction_value, Num(0))])

STRONG_BUY == Str(<<"STRONG BUY">>)

StrongBuyCount(cs) == Len(SelectSeq(cs, LAMBDA c : c.recommendation = STRONG_BUY))

\* The share of the winning records in percent, with no test of the number
\* of records.
WinShare(winning, withPnL) ==
    JsMul(JsDiv(Num(Len(winning)), Num(Len(withPnL))), Num(100))

WinRate(winning, withPnL) ==
    IF Len(withPnL) > 0 THEN WinShare(winning, withPnL) ELSE Num(0)

\* The statistics that divide by the number of records with a return
\* whatever that number is.
calculateStats_NoEmptyGuard(cs) ==
    LET callsWithPnL == CallsWithPnL(cs)
        winningCalls == WinningCalls(callsWithPnL)
    IN  [totalCalls |-> Num(Len(cs)),
         avgPnL |-> MeanPnL(callsWithPnL),
         totalValue |-> TotalValue(cs),
         strongBuyCount |-> Num(StrongBuyCount(cs)),
         winRate |-> WinShare(winningCalls, callsWithPnL),
         winCount |-> Num(Len(winningCalls)),
         callsWithPnL |-> Num(Len(callsWithPnL))]

\* The statistics that sum the value, and count, over the records with a
\* return only.
calculateStats_ValueOfReturns(cs) ==
    LET callsWithPnL == CallsWithPnL(cs)
        winningCalls == WinningCalls(callsWithPnL)
    IN  [totalCalls |-> Num(Len(callsWithPnL)),
         avgPnL |-> AvgPnL(callsWithPnL),
         totalValue |-> TotalValue(callsWithPnL),
         strongBuyCount |-> Num(StrongBuyCount(cs)),
         winRate |-> WinRate(winningCalls, callsWithPnL),
         winCount |-> Num(Len(winningCalls)),
         callsWithPnL |-> Num(Len(callsWithPnL))]

\* The statistics that count a return of 0 as a win.
calculateStats_ZeroWins(cs) ==
    LET callsWithPnL == CallsWithPnL(cs)
        winningCalls ==
            SelectSeq(callsWithPnL,
                      LAMBDA c : ~JsGreater(Num(0), Coalesce(calculatePnL(c), Num(0))))
    IN  [totalCalls |-> Num(Len(cs)),
         avgPnL |-> AvgPnL(callsWithPnL),
         totalValue |-> TotalValue(cs),
         strongBuyCount |-> Num(StrongBuyCount(cs)),
         winRate |-> WinRate(winningCalls, callsWithPnL),
         winCount |-> Num(Len(winningCalls)),
         callsWithPnL |-> Num(Len(callsWithPnL))]

\* The statistics that count a 'BUY' as a 'STRONG BUY'.
calculateStats_AnyBuy(cs) ==
    LET callsWithPnL == CallsWithPnL(cs)
        winningCalls == WinningCalls(callsWithPnL)
    IN  [totalCalls |-> Num(Len(cs)),
         avgPnL |-> AvgPnL(callsWithPnL),
         totalValue |-> TotalValue(cs),
         strongBuyCount |->
            Num(Len(SelectSeq(cs, LAMBDA c : c.recommendation \in {STRONG_BUY, Str(<<"BUY">>)}))),
         winRate |-> WinRate(winningCalls, callsWithPnL),
         winCount |-> Num(Len(winningCalls)),
         callsWithPnL |-> Num(Len(callsWithPnL))]

\* calculateStats(calls)
calculateStats(cs) ==
    LET callsWithPnL == CallsWithPnL(cs)
        winningCalls == WinningCalls(callsWithPnL)
    IN  [totalCalls |-> Num(Len(cs)),
         avgPnL |-> AvgPnL(callsWithPnL),
         totalValue |-> TotalValue(cs),
         strongBuyCount |-> Num(StrongBuyCount(cs)),
         winRate |-> WinRate(winningCalls, callsWithPnL),
         winCount |-> Num(Len(winningCalls)),
         callsWithPnL |-> Num(Len(callsWithPnL))]

----------------------------------------------------------------------------
(* lib/constants *)

FILTER_ALL == "all"

FILTER_TOP_WINNERS == "top-winners"

FILTER_TOP_LOSERS == "top-losers"

FilterTypes == {FILTER_ALL, FILTER_TOP_WINNERS, FILTER_TOP_LOSERS}

TOP_LIST_LIMIT == 20

----------------------------------------------------------------------------
(* hooks/useLLMCalls1_5: the filtered view *)

Min(a, b) == IF a < b THEN a ELSE b

\* The comparator of the sort: negative when a goes before b.
ComparePnL(a, b, flt) ==
    LET pnlA == Coalesce(a.pnl, Num(0))
        pnlB == Coalesce(b.pnl, Num(0))
    IN  IF flt = FILTER_TOP_WINNERS THEN JsSub(pnlB, pnlA) ELSE JsSub(pnlA, pnlB)

\* x put into the sorted s before the first element it must precede.
RECURSIVE InsertSorted(_, _, _)
InsertSorted(s, x, flt) ==
    IF s = <<>> THEN <<x>>
    ELSE LET last == s[Len(s)]
         IN  IF ComparePnL(x, last, flt).n < 0
             THEN Append(InsertSorted(SubSeq(s, 1, Len(s) - 1), x, flt), last)
             ELSE Append(s, x)

\* Array.prototype.sort with the comparator: a stable sort (ECMAScript 2019).
RECURSIVE SortByPnL(_, _)
SortByPnL(s, flt) ==
    IF s = <<>> THEN <<>>
    ELSE InsertSorted(SortByPnL(SubSeq(s, 1, Len(s) - 1), flt), s[Len(s)], flt)

\* The records with a return, sorted by it, cut to the top list's length.
RankedCalls(all, flt) ==
    LET withPnL == [i \in 1..Len(all) |-> [call |-> all[i], pnl |-> calculatePnL(all[i])]]
        defined == SelectSeq(withPnL, LAMBDA item : item.pnl # Null)
        sorted  == SortByPnL(defined, flt)
    IN  [i \in 1..Min(TOP_LIST_LIMIT, Len(sorted)) |-> sorted[i].call]

\* The view that cuts the "all" mode to the top list's length too.
FilteredCalls_AllCapped(all, flt) ==
    IF flt = FILTER_ALL
    THEN SubSeq(all, 1, Min(TOP_LIST_LIMIT, Len(all)))
    ELSE RankedCalls(all, flt)

\* The view whose sort puts a record before the records of equal return.
RECURSIVE InsertBeforeEqual(_, _, _)
InsertBeforeEqual(s, x, flt) ==
    IF s = <<>> THEN <<x>>
    ELSE LET last == s[Len(s)]
         IN  IF ComparePnL(x, last, flt).n <= 0
             THEN Append(InsertBeforeEqual(SubSeq(s, 1, Len(s) - 1), x, flt), last)
             ELSE Append(s, x)

RECURSIVE SortUnstable(_, _)
SortUnstable(s, flt) ==
    IF s = <<>> THEN <<>>
    ELSE InsertBeforeEqual(SortUnstable(SubSeq(s, 1, Len(s) - 1), flt), s[Len(s)], flt)

FilteredCalls_Unstable(all, flt) ==
    IF flt = FILTER_ALL THEN all
    ELSE LET withPnL == [i \in 1..Len(all) |-> [call |-> all[i], pnl |-> calculatePnL(all[i])]]
             defined == SelectSeq(withPnL, LAMBDA item : item.pnl # Null)
             sorted  == SortUnstable(defined, flt)
         IN  [i \in 1..Min(TOP_LIST_LIMIT, Len(sorted)) |-> sorted[i].call]

\* The useMemo that computes calls from allCalls and filter.
FilteredCalls(all, flt) ==
    IF flt = FILTER_ALL THEN all ELSE RankedCalls(all, flt)

\* The held array after a useMemo that sorts the held array itself.
HeldAfterFilter_SortsHeld(all, flt) ==
    IF flt = FILTER_ALL THEN all
    ELSE LET withPnL == [i \in 1..Len(all) |-> [call |-> all[i], pnl |-> calculatePnL(all[i])]]
             sorted  == SortByPnL(withPnL, flt)
         IN  [i \in 1..Len(sorted) |-> sorted[i].call]

\* The held array after the useMemo of calls has run: map and filter build
\* new arrays, and sort, which reorders its receiver in place, is called on
\* the array that filter built; slice copies.  No mutating method has
\* allCalls as its receiver.
HeldAfterFilter(all, flt) == all

\* The statistics of the filtered view.
ExposedStats_OfView(all, view) == calculateStats(view)

\* The useMemo that computes stats: calculateStats(allCalls).
ExposedStats(all, view) == calculateStats(all)

\* The last call or callback that the hook ran: its name, the query it
\* answers (0 if none), the data or the failure of the answer, the number
\* of records it found held and whether it found an error message.
Event(name, id, data, err, held) ==
    [name |-> name, id |-> id, data |-> data, err |-> err, size |-> Len(held),
     hadError |-> error # ""]

NoFailure == [via |-> "none", kind |-> "none", message |-> ""]

NoAnswer == [isNull |-> TRUE, rows |-> <<>>]

NoEvent ==
    [name |-> "none", id |-> 0, data |-> NoAnswer, err |-> NoFailure, size |-> 0,
     hadError |-> FALSE]

\* The load started last: the query it issued, "pending" until that query
\* answers, then "ok" with the data or "failed".
Load(id, status, data) == [id |-> id, status |-> status, data |-> data]

NoLoad == Load(0, "none", NoAnswer)

THEME_STORAGE_KEY == "theme"

\* localStorage holding the one value v, under THEME_STORAGE_KEY; "absent"
\* is no item (getItem returns null).
Stored(v) == [k \in {THEME_STORAGE_KEY} |-> v]

\* The provider's variables where no provider is rendered.
NoProvider ==
    /\ theme = "light"
    /\ themePhase = "none"
    /\ defaultTheme = "light"
    /\ storage = Stored("absent")
    /\ storageMode = "ok"
    /\ darkClass = FALSE
    /\ toggles = 0
    /\ saved = "none"

Called(name, held) == Event(name, 0, NoAnswer, NoFailure, held)

----------------------------------------------------------------------------
(* Normalization of one raw record *)

MaxTextLen == 5

RECURSIVE TextsOfLen(_)
TextsOfLen(k) ==
    IF k = 0 THEN {<<>>}
    ELSE {Append(s, tok) : s \in TextsOfLen(k - 1), tok \in JsonTokens}

\* Every text of at most MaxTextLen tokens.
Texts == UNION {TextsOfLen(k) : k \in 0..MaxTextLen}

\* What a raw array-valued field can hold: a string, an array already
\* decoded, null, nothing, or another value.
RawFieldValues ==
    {Str(s) : s \in Texts}
        \cup {Null, Undefined, EmptyArr, Arr(<<Str(<<"a">>)>>), Arr(<<Num(1), Null>>), Num(1)}

OtherFieldValues == {Null, Str(<<"[", "1", "]">>), Arr(<<Str(<<"a">>)>>)}

\* The hook's state in the runs of a single utility: as created, never used.
HookCreated ==
    /\ phase = "created"
    /\ allCalls = <<>>
    /\ loading = TRUE
    /\ error = ""
    /\ filter = FILTER_ALL
    /\ isRefreshDisabled = FALSE
    /\ isMountedRef = TRUE
    /\ calls = <<>>
    /\ stats = ExposedStats(<<>>, <<>>)
    /\ queries = {}
    /\ issued = 0
    /\ timers = {}
    /\ event = NoEvent
    /\ window = {}
    /\ latest = NoLoad

RawCall(f, v, w) ==
    [g \in ArrayFields \cup {"id"} |->
        IF g = "id" THEN Num(1) ELSE IF g = f THEN v ELSE w]

InitNormalize ==
    /\ \E f \in ArrayFields, v \in RawFieldValues, w \in OtherFieldValues :
            call = RawCall(f, v, w)
    /\ now = 0
    /\ result = Normal(Undefined)
    /\ again = Normal(Undefined)
    /\ pc = "start"
    /\ HookCreated
    /\ store = {}
    /\ NoProvider

Normalize ==
    /\ pc = "start"
    /\ result' = parseLLMCall(call)
    /\ pc' = "once"
    /\ UNCHANGED <<call, now, again>>
    /\ UNCHANGED <<hookVars, store, themeVars>>

NormalizeAgain ==
    /\ pc = "once"
    /\ ~result.threw
    /\ again' = parseLLMCall(result.value)
    /\ pc' = "twice"
    /\ UNCHANGED <<call, now, result>>
    /\ UNCHANGED <<hookVars, store, themeVars>>

NextNormalize == Normalize \/ NormalizeAgain

SpecNormalize == InitNormalize /\ [][NextNormalize]_vars

----------------------------------------------------------------------------
(* The JSON grammar, stated on its own: which token sequences are values.   *)

JsonAtoms == {<<"1">>, <<"null">>, <<StringToken>>}

RECURSIVE IsJsonText(_), IsJsonList(_)
IsJsonText(s) ==
    \/ s \in JsonAtoms
    \/ /\ Len(s) >= 2
       /\ s[1] = "["
       /\ s[Len(s)] = "]"
       /\ \/ Len(s) = 2
          \/ IsJsonList(SubSeq(s, 2, Len(s) - 1))

\* A non-empty, comma-separated list of values.
IsJsonList(s) ==
    \/ IsJsonText(s)
    \/ \E k \in 2..(Len(s) - 1) :
            /\ s[k] = ","
            /\ IsJsonText(SubSeq(s, 1, k - 1))
            /\ IsJsonList(SubSeq(s, k + 1, Len(s)))

\* A string that is not valid JSON syntax.
Malformed(v) == v.t = "string" /\ ~IsJsonText(v.txt)

Absent(v) == v.t \in {"null", "undefined"}

\* C1: whatever a raw array-valued field holds, the same field of
\* parseLLMCall(raw) is an ordered sequence, never a string and never null.
C1_FieldsAreSequences ==
    pc \in {"once", "twice"} =>
        /\ ~result.threw
        /\ \A f \in ArrayFields : result.value[f].t = "array"

\* C2: parseLLMCall never throws, and a field that is a string of invalid
\* JSON syntax, or is absent, is normalized to the empty sequence.
C2_MalformedOrAbsentIsEmpty ==
    pc \in {"once", "twice"} =>
        /\ ~result.threw
        /\ \A f \in ArrayFields :
                (Malformed(call[f]) \/ Absent(call[f])) => result.value[f] = EmptyArr

C2_Witness ==
    /\ pc = "once"
    /\ ~result.threw
    /\ \E f, g \in ArrayFields :
            /\ Malformed(call[f]) /\ Len(call[f].txt) > 1
            /\ call[g] = Null
            /\ result.value[f] = EmptyArr
            /\ result.value[g] = EmptyArr

\* C3: normalization is idempotent: parseLLMCall(parseLLMCall(r)) equals
\* parseLLMCall(r).
C3_Idempotent == pc = "twice" => again = result

----------------------------------------------------------------------------
(* calculatePnL on one record *)

MaxPrice == 8

\* Prices in steps of one half, and an absent price.
PriceValues == {Null, Undefined} \cup {Rat(k, 2) : k \in 0..MaxPrice}

InitPnL ==
    /\ \E e \in PriceValues, c \in PriceValues :
            call = [id |-> Num(1), entry_price |-> e, current_price |-> c]
    /\ now = 0
    /\ result = Normal(Undefined)
    /\ again = Normal(Undefined)
    /\ pc = "start"
    /\ HookCreated
    /\ store = {}
    /\ NoProvider

ComputePnL ==
    /\ pc = "start"
    /\ result' = Normal(calculatePnL(call))
    /\ pc' = "done"
    /\ UNCHANGED <<call, now, again>>
    /\ UNCHANGED <<hookVars, store, themeVars>>

NextPnL == ComputePnL

SpecPnL == InitPnL /\ [][NextPnL]_vars

----------------------------------------------------------------------------
(* getHoldingDays on one record *)

MaxNowTicks == 25

YearTokens == {"2024", "2025"}

MonthTokens == {"00", "01", "02", "12", "13"}

DayTokens == {"00", "01", "15", "28", "32"}

\* An entry date: absent, the empty string, a text that is no date, or a text
\* YYYY-MM-DD whose month and day may be out of range.
EntryDateValues ==
    {Null, Undefined, Str(<<>>), Str(<<"a">>)}
        \cup {Str(<<y, "-", m, "-", d>>) : y \in YearTokens, m \in MonthTokens, d \in DayTokens}

\* The instants from 2024-12-15T00:00Z on, hour by hour.
NowValues == {DaysFromCivil(2024, 12, 15) * TicksPerDay + h : h \in 0..MaxNowTicks}

InitHolding ==
    /\ \E e \in EntryDateValues : call = [id |-> Num(1), entry_date |-> e]
    /\ now \in NowValues
    /\ result = Normal(Undefined)
    /\ again = Normal(Undefined)
    /\ pc = "start"
    /\ HookCreated
    /\ store = {}
    /\ NoProvider

ComputeHoldingDays ==
    /\ pc = "start"
    /\ result' = Normal(getHoldingDays(call, now))
    /\ pc' = "done"
    /\ UNCHANGED <<call, now, again>>
    /\ UNCHANGED <<hookVars, store, themeVars>>

NextHolding == ComputeHoldingDays

SpecHolding == InitHolding /\ [][NextHolding]_vars

----------------------------------------------------------------------------
(* Claims about calculatePnL and getHoldingDays *)

Present(v) == v.t = "number"

\* (current - entry) / entry * 100 as a fraction, for present prices, entry # 0.
ReturnPercent(c) ==
    LET e == c.entry_price
        p == c.current_price
    IN  Rat((p.n * e.d - e.n * p.d) * 100 * e.d, p.d * e.d * e.n)

\* The return as the specification defines it: present exactly when both
\* prices are present and entry_price is not zero.
ReturnDefined(c) ==
    Present(c.current_price) /\ Present(c.entry_price) /\ c.entry_price.n # 0

\* C4: calculatePnL returns a value exactly when current_price is non-null and
\* entry_price is non-null and non-zero (also for current_price = 0), that
\* value being (current_price - entry_price) / entry_price * 100; otherwise
\* it returns null.
C4_ReturnExactlyWhenPricesPresent ==
    pc = "done" =>
        result = Normal(IF ReturnDefined(call) THEN ReturnPercent(call) ELSE Null)

\* C5: for a record whose entry_price is 0 or absent calculatePnL returns
\* null, never Infinity or NaN.
C5_NoEntryPriceNoValue ==
    (pc = "done" /\ (Absent(call.entry_price) \/ call.entry_price = Num(0))) =>
        /\ ~result.threw
        /\ result.value = Null
        /\ result.value.t \notin {"Infinity", "NaN"}

C5_Witness ==
    /\ pc = "done"
    /\ call.entry_price = Num(0)
    /\ Present(call.current_price) /\ call.current_price.n > 0
    /\ result = Normal(Null)

\* C6 as stated: for every record whose entry_price and current_price are
\* identical, calculatePnL returns exactly 0.
C6_IdenticalPricesGiveZero ==
    (pc = "done" /\ call.entry_price = call.current_price) => result = Normal(Num(0))

\* C6 amended: for every record whose entry_price and current_price are
\* identical, present and not zero, calculatePnL returns exactly 0, which is
\* a value and not null.
C6_IdenticalNonZeroPricesGiveZero ==
    (/\ pc = "done"
     /\ call.entry_price = call.current_price
     /\ Present(call.entry_price)
     /\ call.entry_price.n # 0) =>
        /\ result = Normal(Num(0))
        /\ result.value # Null

C6_Witness ==
    /\ pc = "done"
    /\ call.entry_price = call.current_price
    /\ Present(call.entry_price) /\ call.entry_price.n > 0 /\ call.entry_price.d = 2
    /\ result = Normal(Num(0))

\* Whether the entry date is a valid calendar date, and its day number.
IsCalendarDate(v) ==
    /\ v.t = "string" /\ Len(v.txt) = 5 /\ v.txt[2] = "-" /\ v.txt[4] = "-"
    /\ TokenNumber(v.txt[1]) >= 1970
    /\ TokenNumber(v.txt[3]) \in 1..12
    /\ TokenNumber(v.txt[5]) \in 1..DaysInMonth(TokenNumber(v.txt[1]), TokenNumber(v.txt[3]))

EntryDay(v) ==
    DaysFromCivil(TokenNumber(v.txt[1]), TokenNumber(v.txt[3]), TokenNumber(v.txt[5]))

\* The least k with k * TicksPerDay >= |today - entry|.
CeilDays(v, today) ==
    LET diff == Abs(today - EntryDay(v) * TicksPerDay)
    IN  CHOOSE k \in 0..(diff \div TicksPerDay + 1) :
            /\ k * TicksPerDay >= diff
            /\ (k = 0 \/ (k - 1) * TicksPerDay < diff)

\* C7: getHoldingDays returns null unless entry_date parses as a valid
\* calendar date, and then the ceiling of the absolute difference in days
\* between entry_date and the current instant; a present but unparseable
\* entry_date yields null, not a number-typed non-value.
C7_HoldingDaysOrNoValue ==
    pc = "done" =>
        result = Normal(IF IsCalendarDate(call.entry_date)
                        THEN Num(CeilDays(call.entry_date, now))
                        ELSE Null)

\* The part of C7 that the code keeps: on a valid calendar date the result
\* is the ceiling of the absolute difference in days, a non-negative integer.
C7_ValidDateCeilDays ==
    (pc = "done" /\ IsCalendarDate(call.entry_date)) =>
        /\ result = Normal(Num(CeilDays(call.entry_date, now)))
        /\ result.value.n >= 0

----------------------------------------------------------------------------
(* calculateStats on one collection *)

MaxStatsLen == 3

StatsRecord(entry, current, value, recommendation) ==
    [id |-> Num(1),
     entry_price |-> entry,
     current_price |-> current,
     total_transaction_value |-> value,
     recommendation |-> Str(<<recommendation>>)]

\* Records of a positive, a negative, a zero and a fractional return, of a
\* current price of 0 and of no return; with a value or without.
StatsRecords ==
    {StatsRecord(Num(2), Num(3), Num(100), "STRONG BUY"),
     StatsRecord(Num(4), Num(2), Num(200), "BUY"),
     StatsRecord(Num(4), Num(4), Null, "WATCH"),
     StatsRecord(Num(4), Num(0), Num(100), "BUY"),
     StatsRecord(Null, Num(5), Null, "STRONG BUY"),
     StatsRecord(Num(3), Num(4), Num(200), "WATCH"),
     StatsRecord(Num(0), Num(3), Undefined, "BUY")}

SeqsOfLen(S, n) == [1..n -> S]

Collections == UNION {SeqsOfLen(StatsRecords, n) : n \in 0..MaxStatsLen}

InitStats ==
    /\ call \in Collections
    /\ now = 0
    /\ result = Normal(Undefined)
    /\ again = Normal(Undefined)
    /\ pc = "start"
    /\ HookCreated
    /\ store = {}
    /\ NoProvider

ComputeStats ==
    /\ pc = "start"
    /\ result' = Normal(calculateStats(call))
    /\ pc' = "done"
    /\ UNCHANGED <<call, now, again>>
    /\ UNCHANGED <<hookVars, store, themeVars>>

NextStats == ComputeStats

SpecStats == InitStats /\ [][NextStats]_vars

----------------------------------------------------------------------------
(* Claims about calculateStats *)

\* The sum of nums[i] over the indices i of S.
RECURSIVE SumOver(_, _)
SumOver(S, nums) ==
    IF S = {} THEN Num(0)
    ELSE LET i == CHOOSE j \in S : TRUE
         IN  JsAdd(nums[i], SumOver(S \ {i}, nums))

ZeroStats ==
    [totalCalls |-> Num(0), avgPnL |-> Num(0), totalValue |-> Num(0),
     strongBuyCount |-> Num(0), winRate |-> Num(0), winCount |-> Num(0),
     callsWithPnL |-> Num(0)]

\* C12: calculateStats of the empty collection returns, without failing,
\* totalCalls, avgPnL, totalValue, strongBuyCount, winRate, winCount and
\* callsWithPnL all 0.
C12_EmptyCollectionGivesZeros ==
    (pc = "done" /\ call = <<>>) =>
        /\ ~result.threw
        /\ result.value = ZeroStats

C12_Witness ==
    /\ pc = "done"
    /\ call = <<>>
    /\ result.value.avgPnL = Num(0)
    /\ result.value.winRate = Num(0)

\* The value of a record, an absent one counted as zero.
ValueOrZero(c) ==
    IF Absent(c.total_transaction_value) THEN Num(0) ELSE c.total_transaction_value

\* C13: totalValue is the sum of total_transaction_value over all records of
\* the collection, an absent value counted as zero, and totalCalls is the
\* number of all records: the records without a return are in both.
C13_TotalValueOverAllRecords ==
    pc = "done" =>
        /\ result.value.totalValue =
                SumOver(1..Len(call), [i \in 1..Len(call) |-> ValueOrZero(call[i])])
        /\ result.value.totalCalls = Num(Len(call))

C13_Witness ==
    /\ pc = "done"
    /\ Len(call) = 3
    /\ call[1].total_transaction_value = Num(100)
    /\ call[2].total_transaction_value = Num(200)
    /\ call[3].total_transaction_value = Null
    /\ ~ReturnDefined(call[3])
    /\ calculatePnL(call[3]) = Null
    /\ result.value.totalValue = Num(300)
    /\ result.value.totalCalls = Num(3)

\* The records of the collection whose return is defined.
WithReturn(cs) == {i \in 1..Len(cs) : ReturnDefined(cs[i])}

\* The arithmetic mean of the returns of the records of S, 0 for no record.
MeanReturn(cs, S) ==
    IF S = {} THEN Num(0)
    ELSE JsDiv(SumOver(S, [i \in 1..Len(cs) |->
                              IF i \in S THEN ReturnPercent(cs[i]) ELSE Num(0)]),
               Num(Cardinality(S)))

\* C14: avgPnL is the arithmetic mean of the returns of exactly the records
\* whose return is defined, 0 when there is none, and callsWithPnL is the
\* number of those records.
C14_AvgPnLOverDefinedReturns ==
    pc = "done" =>
        /\ result.value.avgPnL = MeanReturn(call, WithReturn(call))
        /\ result.value.callsWithPnL = Num(Cardinality(WithReturn(call)))

\* The records for which calculatePnL returns a value.
WithComputedReturn(cs) == {i \in 1..Len(cs) : calculatePnL(cs[i]) # Null}

\* The statement of C14 with "defined" read as calculatePnL returning a value.
AvgPnLOverComputedReturns ==
    pc = "done" =>
        /\ result.value.avgPnL = MeanReturn(call, WithComputedReturn(call))
        /\ result.value.callsWithPnL = Num(Cardinality(WithComputedReturn(call)))

\* The records whose return is defined and greater than 0.
Wins(cs) == {i \in WithReturn(cs) : NumLess(Num(0), ReturnPercent(cs[i]))}

\* C15: winCount is the number of records whose return is defined and
\* greater than 0, a return of 0 being no win, and winRate is
\* winCount / callsWithPnL * 100, or 0 when callsWithPnL is 0.
C15_WinCountAndWinRate ==
    pc = "done" =>
        LET st == result.value
        IN  /\ st.winCount = Num(Cardinality(Wins(call)))
            /\ st.winRate = IF st.callsWithPnL = Num(0) THEN Num(0)
                            ELSE JsMul(JsDiv(st.winCount, st.callsWithPnL), Num(100))

C15_Witness ==
    /\ pc = "done"
    /\ \E i \in 1..Len(call) : ReturnDefined(call[i]) /\ ReturnPercent(call[i]) = Num(0)
    /\ \E i \in 1..Len(call) : ReturnDefined(call[i]) /\ ReturnPercent(call[i]).n < 0
    /\ result.value.winCount = Num(1)
    /\ result.value.callsWithPnL = Num(3)
    /\ result.value.winRate = Rat(100, 3)

----------------------------------------------------------------------------
(* The rows the store answers with *)

MaxSeed == 4

SmallRows == 3

ExtraRows == 5

MaxQueries == 3

Price(entry, current) == [entry |-> entry, current |-> current]

\* Rows of pairwise distinct returns: one entry price, current prices that
\* differ from row to row and are never 0.
DistinctPrice(i, seed) ==
    Price(Num(4), Num(1 + ((i * (2 * seed + 5)) % 31)))

\* A row that lacks a price or holds a 0.
GapPrice(j) ==
    CASE j % 4 = 1 -> Price(Num(4), Num(0))
      [] j % 4 = 2 -> Price(Null, Num(5))
      [] j % 4 = 3 -> Price(Num(0), Num(3))
      [] OTHER -> Price(Num(4), Null)

\* Rows of few returns (+50, -50, 0 and +100, each but the last from two
\* pairs of prices); rows 3, 11, 19, ... lack a price or hold a 0.
MixedPrice(i, seed) ==
    LET k == (i * 3 + 7) % 8
    IN  CASE k = 1 -> Price(Num(4), Num(6))
          [] k = 2 -> Price(Num(2), Num(3))
          [] k = 3 -> Price(Num(4), Num(2))
          [] k = 4 -> Price(Num(2), Num(1))
          [] k = 5 -> Price(Num(4), Num(4))
          [] k = 6 -> Price(Num(1), Num(1))
          [] k = 7 -> Price(Num(2), Num(4))
          [] OTHER -> GapPrice(i \div 8 + seed)

RowKinds == {"distinct", "mixed"}

\* Row i of an answer: a raw LLMCall.
RawRow(i, kind, seed) ==
    LET price == IF kind = "distinct" THEN DistinctPrice(i, seed) ELSE MixedPrice(i, seed)
    IN  [id |-> Num(i),
         recommendation |-> Str(<<CASE i % 3 = 0 -> "STRONG BUY"
                                    [] i % 3 = 1 -> "BUY"
                                    [] OTHER -> "WATCH">>),
         entry_price |-> price.entry,
         current_price |-> price.current,
         total_transaction_value |-> IF i % 5 = 0 THEN Null ELSE Num(100 * i),
         transaction_dates |-> Str(<<"[", StringToken, "]">>),
         insider_names |-> IF i % 2 = 0 THEN Arr(<<Str(<<"a">>)>>) ELSE Str(<<"[", StringToken>>),
         market_patterns |-> IF i % 3 = 0 THEN Null ELSE Str(<<"[", "]">>),
         insider_prices_json |-> Str(<<"[", "1", ",", "null", "]">>)]

Rows(n, kind, seed) == [i \in 1..n |-> RawRow(i, kind, seed)]

Data(rows) == [isNull |-> FALSE, rows |-> rows]

NoData == [isNull |-> TRUE, rows |-> <<>>]

\* The data the store answers a query of the hook with: a few rows, or more
\* rows than the top list's limit.
Datasets ==
    {Data(Rows(SmallRows, "distinct", 1)),
     Data(Rows(TOP_LIST_LIMIT + ExtraRows, "mixed", 1))}

\* The data held when only the filter mode changes: every number of rows up
\* to ExtraRows over the top list's limit.
ViewDatasets ==
    {Data(Rows(n, kind, seed)) :
        n \in 0..(TOP_LIST_LIMIT + ExtraRows), kind \in RowKinds, seed \in 1..MaxSeed}

\* What a failed query hands to the catch block: an Error, a string, or
\* another value (a plain object, say), with a message or an empty one.  A
\* rejected promise throws any of them; an error payload is thrown only if
\* it is truthy, which the empty string is not.
ThrownValues ==
    {[kind |-> "Error", message |-> "network down"],
     [kind |-> "Error", message |-> ""],
     [kind |-> "string", message |-> "rejected"],
     [kind |-> "string", message |-> ""],
     [kind |-> "other", message |-> ""]}

Truthy(err) == ~(err.kind = "string" /\ err.message = "")

FailureValues ==
    {[via |-> "reject", kind |-> e.kind, message |-> e.message] : e \in ThrownValues}
        \cup {[via |-> "payload", kind |-> e.kind, message |-> e.message] :
                e \in {x \in ThrownValues : Truthy(x)}}

----------------------------------------------------------------------------
(* hooks/useLLMCalls1_5: the controller *)

\* The message the catch block of fetchCalls sets.
ErrorMessage(err) ==
    IF err.kind \in {"Error", "string"} THEN err.message
    ELSE "An unexpected error occurred"

\* (data || []).map(parseLLMCall)
ParsedData(data) ==
    LET rows == IF data.isNull THEN <<>> ELSE data.rows
    IN  [i \in 1..Len(rows) |-> parseLLMCall(rows[i])]

\* The held collection that appends the parsed rows to the ones it holds.
NextAllCalls_Merged(held, parsedData, mounted) ==
    IF mounted THEN held \o parsedData ELSE held

\* if (isMountedRef.current) setAllCalls(parsedData)
NextAllCalls(held, parsedData, mounted) ==
    IF mounted THEN parsedData ELSE held

InitHook ==
    /\ call = Null
    /\ now = 0
    /\ result = Normal(Undefined)
    /\ again = Normal(Undefined)
    /\ pc = "hook"
    /\ HookCreated
    /\ store = Datasets
    /\ NoProvider

\* fetchCalls that leaves the error message of an earlier load in place.
StartFetch_KeepsError(by) ==
    /\ loading' = TRUE
    /\ UNCHANGED error
    /\ queries' = queries \cup {[id |-> issued + 1, by |-> by]}
    /\ issued' = issued + 1
    /\ latest' = Load(issued + 1, "pending", NoAnswer)

\* fetchCalls up to its await: the flags are set and one query is issued.
StartFetch(by) ==
    /\ loading' = TRUE
    /\ error' = ""
    /\ queries' = queries \cup {[id |-> issued + 1, by |-> by]}
    /\ issued' = issued + 1
    /\ latest' = Load(issued + 1, "pending", NoAnswer)

\* The effects of the first render: the mounted flag and the first fetchCalls.
Mount ==
    /\ pc = "hook"
    /\ phase = "created"
    /\ phase' = "mounted"
    /\ isMountedRef' = TRUE
    /\ StartFetch("mount")
    /\ event' = Called("mount", allCalls)
    /\ UNCHANGED <<allCalls, filter, isRefreshDisabled, calls, stats, timers, window>>
    /\ UNCHANGED idleVars

\* The cleanup of the effect.
Unmount ==
    /\ phase = "mounted"
    /\ phase' = "unmounted"
    /\ isMountedRef' = FALSE
    /\ event' = Called("unmount", allCalls)
    /\ UNCHANGED <<allCalls, loading, error, filter, isRefreshDisabled, calls,
                   stats, queries, issued, timers, window, latest>>
    /\ UNCHANGED idleVars

\* refresh() while refresh is enabled, up to the await of fetchCalls.
Refresh ==
    /\ phase = "mounted"
    /\ ~isRefreshDisabled
    /\ issued < MaxQueries
    /\ isRefreshDisabled' = TRUE
    /\ StartFetch("refresh")
    /\ window' = window \cup {issued + 1}
    /\ event' = Called("refresh", allCalls)
    /\ UNCHANGED <<phase, allCalls, filter, isMountedRef, calls, stats, timers>>
    /\ UNCHANGED idleVars

\* refresh() while refresh is disabled: it returns at once.
RefreshIgnored ==
    /\ phase = "mounted"
    /\ isRefreshDisabled
    /\ event' = Called("refreshIgnored", allCalls)
    /\ UNCHANGED <<phase, allCalls, loading, error, filter, isRefreshDisabled,
                   isMountedRef, calls, stats, queries, issued, timers, window,
                   latest>>
    /\ UNCHANGED idleVars

\* REFRESH_DEBOUNCE_MS have passed since a refresh was called.
CooldownElapses ==
    \E id \in window :
        /\ window' = window \ {id}
        /\ event' = Event("elapsed", id, NoAnswer, NoFailure, allCalls)
        /\ UNCHANGED <<phase, allCalls, loading, error, filter, isRefreshDisabled,
                       isMountedRef, calls, stats, queries, issued, timers, latest>>
        /\ UNCHANGED idleVars

\* After fetchCalls has returned to the refresh that awaited it, that refresh
\* sets its cooldown timer.
AfterFetch_TimerOnSuccess(q, status, data) ==
    /\ queries' = queries \ {q}
    /\ timers' = IF q.by = "refresh" /\ status = "ok" THEN timers \cup {q.id} ELSE timers
    /\ latest' = IF q.id = latest.id THEN Load(q.id, status, data) ELSE latest

AfterFetch(q, status, data) ==
    /\ queries' = queries \ {q}
    /\ timers' = IF q.by = "refresh" THEN timers \cup {q.id} ELSE timers
    /\ latest' = IF q.id = latest.id THEN Load(q.id, status, data) ELSE latest

\* The catch and finally blocks that leave the loading flag as it is after
\* a failure.
CatchAndFinally_NoFinally(err) ==
    /\ error' = IF isMountedRef THEN ErrorMessage(err) ELSE error
    /\ UNCHANGED <<allCalls, loading, calls, stats>>

\* The catch and finally blocks of fetchCalls.
CatchAndFinally(err) ==
    /\ error' = IF isMountedRef THEN ErrorMessage(err) ELSE error
    /\ loading' = IF isMountedRef THEN FALSE ELSE loading
    /\ UNCHANGED <<allCalls, calls, stats>>

\* A query answers with data: fetchCalls from its await to its end.
QuerySucceeds ==
    \E q \in queries, data \in store :
        LET parsedData == ParsedData(data)
            values == [i \in 1..Len(parsedData) |-> parsedData[i].value]
            held == NextAllCalls(allCalls, values, isMountedRef)
        IN  /\ IF \E i \in 1..Len(parsedData) : parsedData[i].threw
               THEN /\ CatchAndFinally([via |-> "reject", kind |-> "Error",
                                        message |-> "SyntaxError"])
                    /\ AfterFetch(q, "failed", NoAnswer)
               ELSE /\ calls' = FilteredCalls(held, filter)
                    /\ allCalls' = HeldAfterFilter(held, filter)
                    /\ stats' = ExposedStats(allCalls', calls')
                    /\ loading' = IF isMountedRef THEN FALSE ELSE loading
                    /\ UNCHANGED error
                    /\ AfterFetch(q, "ok", data)
            /\ event' = Event("querySucceeds", q.id, data, NoFailure, allCalls)
            /\ UNCHANGED <<phase, filter, isRefreshDisabled, isMountedRef, issued,
                           window>>
            /\ UNCHANGED idleVars

\* A query answers with an error, or is rejected.
QueryFails ==
    \E q \in queries, err \in FailureValues :
        /\ CatchAndFinally(err)
        /\ AfterFetch(q, "failed", NoAnswer)
        /\ event' = Event("queryFails", q.id, NoAnswer, err, allCalls)
        /\ UNCHANGED <<phase, filter, isRefreshDisabled, isMountedRef, issued, window>>
        /\ UNCHANGED idleVars

\* The write of the timer's callback that does not look at the mounted flag.
TimerWrite_Unguarded(mounted, disabled) == FALSE

\* if (isMountedRef.current) setIsRefreshDisabled(false)
TimerWrite(mounted, disabled) == IF mounted THEN FALSE ELSE disabled

\* The callback of refresh's setTimeout: it runs REFRESH_DEBOUNCE_MS after
\* the timer was set, which is not before REFRESH_DEBOUNCE_MS after the call
\* of that refresh.
TimerFires ==
    \E id \in timers :
        /\ id \notin window
        /\ timers' = timers \ {id}
        /\ isRefreshDisabled' = TimerWrite(isMountedRef, isRefreshDisabled)
        /\ event' = Event("timer", id, NoAnswer, NoFailure, allCalls)
        /\ UNCHANGED <<phase, allCalls, loading, error, filter, isMountedRef, calls,
                       stats, queries, issued, window, latest>>
        /\ UNCHANGED idleVars

\* setFilter(f), and the useMemos that follow it.
SetFilter ==
    \E f \in FilterTypes :
        /\ phase = "mounted"
        /\ filter' = f
        /\ calls' = FilteredCalls(allCalls, f)
        /\ allCalls' = HeldAfterFilter(allCalls, f)
        /\ stats' = ExposedStats(allCalls', calls')
        /\ event' = Called("setFilter", allCalls)
        /\ UNCHANGED <<phase, loading, error, isRefreshDisabled, isMountedRef,
                       queries, issued, timers, window, latest>>
        /\ UNCHANGED idleVars

\* clearError() that empties the held collection too.
ClearError_ClearsHeld ==
    /\ phase = "mounted"
    /\ error' = ""
    /\ allCalls' = <<>>
    /\ event' = Called("clearError", allCalls)
    /\ UNCHANGED <<phase, loading, filter, isRefreshDisabled, isMountedRef, calls,
                   stats, queries, issued, timers, window, latest>>
    /\ UNCHANGED idleVars

\* clearError()
ClearError ==
    /\ phase = "mounted"
    /\ error' = ""
    /\ event' = Called("clearError", allCalls)
    /\ UNCHANGED <<phase, allCalls, loading, filter, isRefreshDisabled,
                   isMountedRef, calls, stats, queries, issued, timers, window,
                   latest>>
    /\ UNCHANGED idleVars

Next ==
    \/ Mount
    \/ Unmount
    \/ Refresh
    \/ RefreshIgnored
    \/ CooldownElapses
    \/ QuerySucceeds
    \/ QueryFails
    \/ TimerFires
    \/ SetFilter
    \/ ClearError

Spec == InitHook /\ [][Next]_vars

\* The hook after its first load has answered with data, no other call made.
InitView ==
    /\ call = Null
    /\ now = 0
    /\ result = Normal(Undefined)
    /\ again = Normal(Undefined)
    /\ pc = "hook"
    /\ phase = "mounted"
    /\ store = ViewDatasets
    /\ \E data \in store :
            LET parsedData == ParsedData(data)
            IN  /\ allCalls = [i \in 1..Len(parsedData) |-> parsedData[i].value]
                /\ event = [name |-> "querySucceeds", id |-> 1, data |-> data,
                            err |-> NoFailure, size |-> 0, hadError |-> FALSE]
                /\ latest = Load(1, "ok", data)
    /\ loading = FALSE
    /\ error = ""
    /\ filter = FILTER_ALL
    /\ isRefreshDisabled = FALSE
    /\ isMountedRef = TRUE
    /\ calls = FilteredCalls(allCalls, FILTER_ALL)
    /\ stats = ExposedStats(allCalls, calls)
    /\ queries = {}
    /\ issued = 1
    /\ timers = {}
    /\ window = {}
    /\ NoProvider

NextView == SetFilter

SpecView == InitView /\ [][NextView]_vars

\* The data the store answers with in the runs that follow the hook's
\* queries, cooldowns and timers rather than its data: null, no row, one
\* row, or a few.
ControlDatasets ==
    {NoData, Data(<<>>), Data(Rows(1, "distinct", 1)), Data(Rows(SmallRows, "mixed", 1))}

InitControl ==
    /\ call = Null
    /\ now = 0
    /\ result = Normal(Undefined)
    /\ again = Normal(Undefined)
    /\ pc = "hook"
    /\ HookCreated
    /\ store = ControlDatasets
    /\ NoProvider

SpecControl == InitControl /\ [][Next]_vars

\* The runs in which every query in flight is answered, time passes and
\* every timer that is due fires.
Fairness ==
    /\ WF_vars(QueryFails \/ QuerySucceeds)
    /\ WF_vars(CooldownElapses)
    /\ WF_vars(TimerFires)

\* The data the store answers with in the runs that are followed to their
\* end: one row.
LiveDatasets == {Data(Rows(1, "mixed", 1))}

InitLive ==
    /\ call = Null
    /\ now = 0
    /\ result = Normal(Undefined)
    /\ again = Normal(Undefined)
    /\ pc = "hook"
    /\ HookCreated
    /\ store = LiveDatasets
    /\ NoProvider

SpecLive == InitLive /\ [][Next]_vars /\ Fairness

----------------------------------------------------------------------------
(* Claims about the filtered view *)

Ranked == filter \in {FILTER_TOP_WINNERS, FILTER_TOP_LOSERS}

\* The return of a record as the specification defines it, null if undefined.
Return(c) == IF ReturnDefined(c) THEN ReturnPercent(c) ELSE Null

\* Where a record stands in a sequence that holds it once, 0 if it does not.
IndexIn(seq, r) ==
    IF \E i \in 1..Len(seq) : seq[i] = r
    THEN CHOOSE i \in 1..Len(seq) : seq[i] = r
    ELSE 0

\* a is a better return than b in the current mode.
Better(a, b) ==
    IF filter = FILTER_TOP_WINNERS THEN NumLess(b, a) ELSE NumLess(a, b)

HeldWithReturn == {i \in 1..Len(allCalls) : ReturnDefined(allCalls[i])}

LeftOut == {i \in HeldWithReturn : IndexIn(calls, allCalls[i]) = 0}

DistinctReturns ==
    \A i, j \in 1..Len(allCalls) :
        i # j => Return(allCalls[i]) # Return(allCalls[j])

\* C8: in the ranked modes the view holds only held records with a defined
\* return, min(20, number of such records) of them, ordered by return, no
\* record left out being better than one included; 25 records of distinct
\* defined returns give exactly 20, strictly ordered.
C8_RankedView ==
    Ranked =>
        /\ \A i \in 1..Len(calls) :
                /\ IndexIn(allCalls, calls[i]) # 0
                /\ ReturnDefined(calls[i])
        /\ Len(calls) = Min(TOP_LIST_LIMIT, Cardinality(HeldWithReturn))
        /\ \A i, j \in 1..Len(calls) :
                i < j => ~Better(Return(calls[j]), Return(calls[i]))
        /\ \A o \in LeftOut : \A i \in 1..Len(calls) :
                ~Better(Return(allCalls[o]), Return(calls[i]))
        /\ (Len(allCalls) = 25 /\ Cardinality(HeldWithReturn) = 25 /\ DistinctReturns) =>
                /\ Len(calls) = 20
                /\ \A i, j \in 1..Len(calls) :
                        i < j => Better(Return(calls[i]), Return(calls[j]))

\* The statement of C8 with "defined" read as calculatePnL returning a value.
HeldWithPnL == {i \in 1..Len(allCalls) : calculatePnL(allCalls[i]) # Null}

RankedViewOfComputedReturns ==
    Ranked =>
        /\ \A i \in 1..Len(calls) :
                /\ IndexIn(allCalls, calls[i]) \in HeldWithPnL
                /\ \A j \in 1..Len(calls) : i < j => calls[i] # calls[j]
        /\ Len(calls) = Min(TOP_LIST_LIMIT, Cardinality(HeldWithPnL))
        /\ \A i, j \in 1..Len(calls) :
                i < j => ~Better(Return(calls[j]), Return(calls[i]))
        /\ \A o \in HeldWithPnL : IndexIn(calls, allCalls[o]) = 0 =>
                \A i \in 1..Len(calls) : ~Better(Return(allCalls[o]), Return(calls[i]))

\* C9: in both ranked modes records of equal return stand in the view in the
\* order they have in the held collection, and the cut to 20 comes after
\* that ordering: of records of equal return, the ones left out come later
\* in the held collection than the ones included.
C9_TiesKeepHeldOrder ==
    Ranked =>
        /\ \A i, j \in 1..Len(calls) :
                (i < j /\ Return(calls[i]) = Return(calls[j])) =>
                    IndexIn(allCalls, calls[i]) < IndexIn(allCalls, calls[j])
        /\ \A o \in LeftOut : \A i \in 1..Len(calls) :
                Return(allCalls[o]) = Return(calls[i]) =>
                    IndexIn(allCalls, calls[i]) < o
        /\ Len(calls) <= TOP_LIST_LIMIT

C9_Witness ==
    /\ Ranked
    /\ Len(calls) = TOP_LIST_LIMIT
    /\ \E i, j \in 1..Len(calls) :
            /\ i < j
            /\ Return(calls[i]) = Return(calls[j])
            /\ IndexIn(allCalls, calls[i]) + 1 < IndexIn(allCalls, calls[j])
    /\ \E o \in LeftOut : \E i \in 1..Len(calls) :
            /\ Return(allCalls[o]) = Return(calls[i])
            /\ IndexIn(allCalls, calls[i]) < o

\* C10: in "all" mode the view is the held collection itself: every record,
\* in unchanged order, the records without a return too, with no cap.
C10_AllIsHeldCollection ==
    filter = FILTER_ALL => calls = allCalls

C10_Witness ==
    /\ filter = FILTER_ALL
    /\ phase = "mounted"
    /\ issued > 1
    /\ Len(allCalls) > TOP_LIST_LIMIT
    /\ \E i \in 1..Len(allCalls) : calculatePnL(allCalls[i]) = Null
    /\ calls = allCalls

----------------------------------------------------------------------------
(* Claims about the held collection, the statistics and the flags *)

C16_StatsOfHeldCollection ==
    /\ [](stats = calculateStats(allCalls))
    /\ [][event'.name = "setFilter" => stats' = stats]_vars

C16_Witness ==
    /\ event.name = "setFilter"
    /\ Ranked
    /\ stats = calculateStats(allCalls)
    /\ stats.totalCalls.n > Len(calls)
    /\ stats # calculateStats(calls)

\* The rows of an answer, each normalized, in the answer's order.
NormalizedRows(data) ==
    IF data.isNull THEN <<>>
    ELSE [i \in 1..Len(data.rows) |-> parseLLMCall(data.rows[i]).value]

\* C17: when a load completes successfully while the consumer is mounted,
\* the held collection becomes the sequence of the normalized rows of that
\* answer, in the answer's order: it is replaced, not merged.
C17_SuccessfulLoadReplacesHeld ==
    [][(event'.name = "querySucceeds" /\ isMountedRef) =>
            allCalls' = NormalizedRows(event'.data)]_vars

\* A second load that found more records held than its answer brings.
C17_Witness ==
    /\ event.name = "querySucceeds"
    /\ event.id > 1
    /\ isMountedRef
    /\ event.size > Len(allCalls)
    /\ Len(allCalls) > 0
    /\ allCalls = NormalizedRows(event.data)

\* C18: when a query fails, by an error payload or by a throw, of an Error,
\* a string or any other value, the held collection is left as it was and
\* the error message becomes non-empty.
C18_FailureKeepsHeldAndSetsError ==
    [][(event'.name = "queryFails" /\ isMountedRef) =>
            /\ allCalls' = allCalls
            /\ error' # ""]_vars

\* The part of C18 that the code keeps: the held collection is left as it
\* was, and the message is non-empty unless the failure is an Error of an
\* empty message or the empty string.
FailureKeepsHeldAndSetsItsMessage ==
    [][(event'.name = "queryFails" /\ isMountedRef) =>
            /\ allCalls' = allCalls
            /\ (event'.err.kind = "other" \/ event'.err.message # "") => error' # ""]_vars

\* C19: clearError empties the error message and changes nothing else: the
\* held collection, the filter mode, the loading flag and the
\* refresh-disabled flag stay, and no query is issued.
C19_ClearErrorOnlyClearsError ==
    [][event'.name = "clearError" =>
            /\ error' = ""
            /\ UNCHANGED <<allCalls, filter, loading, isRefreshDisabled, calls, stats,
                           queries, issued, timers, isMountedRef, phase, window,
                           latest>>]_vars

\* clearError called on a loaded, filtered hook whose refresh is in flight.
C19_Witness ==
    /\ event.name = "clearError"
    /\ error = ""
    /\ Len(allCalls) > 0
    /\ Ranked
    /\ loading
    /\ isRefreshDisabled
    /\ queries # {}

Answered == event'.name \in {"querySucceeds", "queryFails"}

\* C20 as stated: every load clears the loading flag when it finishes, on
\* the success path and on every failure path; no exit path leaves it true.
C20_LoadAlwaysClearsLoading ==
    [][Answered => loading' = FALSE]_vars

\* C20 amended: every load that finishes while the consumer is mounted
\* clears the loading flag, on the success path and on every failure path;
\* a load that finishes after the unmount leaves the flag as it is.
C20_MountedLoadClearsLoading ==
    [][Answered => loading' = (IF isMountedRef THEN FALSE ELSE loading)]_vars

\* A failed load has cleared the flag.
C20_Witness ==
    /\ event.name = "queryFails"
    /\ event.err.kind = "other"
    /\ isMountedRef
    /\ queries = {}
    /\ ~loading

----------------------------------------------------------------------------
(* Claims about loads, refreshes and the teardown *)

LoadStarted == event'.name \in {"mount", "refresh"}

\* C21: when a load starts, before its query responds, the loading flag is
\* true, the error message of an earlier load is cleared and exactly one
\* query is issued; before the mount-time load has responded the hook has
\* loading true, an empty error message and an empty collection.
C21_LoadStartsLoadingAndClearsError ==
    /\ []((phase = "created" \/ event.name = "mount") =>
                (loading /\ error = "" /\ allCalls = <<>>))
    /\ [][LoadStarted =>
            /\ loading' /\ error' = ""
            /\ issued' = issued + 1
            /\ \E q \in queries' : q.id = issued' /\ queries' = queries \cup {q}]_vars

\* A refresh that found the error message of a failed load.
C21_Witness ==
    /\ event.name = "refresh"
    /\ event.hadError
    /\ event.size > 0
    /\ loading
    /\ error = ""
    /\ Cardinality(queries) = 1

\* C22: a refresh() called while the cooldown window of an earlier refresh
\* is open is a no-op, issuing no query and changing no state; a refresh()
\* called after every window has elapsed issues a query: it is ignored only
\* while a window is open or while the timer that ends the cooldown is due.
C22_RefreshIgnoredOnlyInCooldown ==
    [][/\ event'.name = "refresh" => window = {}
       /\ event'.name = "refreshIgnored" =>
            /\ UNCHANGED <<allCalls, loading, error, filter, isRefreshDisabled, calls,
                           stats, queries, issued, timers>>
            /\ (window # {} \/ timers # {})]_vars

\* The part of C22 that the code keeps: no refresh is accepted while a
\* window is open, and an ignored refresh issues no query and changes no
\* state.
RefreshInCooldownIsNoOp ==
    [][/\ event'.name = "refresh" => window = {}
       /\ event'.name = "refreshIgnored" =>
            UNCHANGED <<allCalls, loading, error, filter, isRefreshDisabled, calls,
                        stats, queries, issued, timers>>]_vars

\* C23: after an accepted refresh the flag is cleared once
\* REFRESH_DEBOUNCE_MS have passed since the call, whether or not the load
\* has finished: with the consumer mounted and no window open, refresh is
\* enabled or the timer that enables it is already set, not waiting for the
\* query.
C23_CooldownCountsFromCall ==
    (phase = "mounted" /\ window = {} /\ isRefreshDisabled) => timers # {}

\* What the code does: the cooldown counts from the end of the load.  While
\* refresh is disabled its query is in flight or its timer is set.
CooldownCountsFromEndOfLoad ==
    (phase = "mounted" /\ isRefreshDisabled) =>
        \/ \E q \in queries : q.by = "refresh"
        \/ timers # {}

\* The state that the hook exposes.
exposed == <<allCalls, loading, error, filter, isRefreshDisabled, calls, stats>>

\* C24: after the unmount cleanup has run no state of the hook is written:
\* the answer or the failure of a query still in flight changes neither the
\* collection, the error message nor the loading flag, and a pending timer
\* does not change the refresh-disabled flag.
C24_NoWriteAfterTeardown ==
    [][~isMountedRef => UNCHANGED exposed]_vars

\* After the unmount the timer of a refresh has fired and then the first
\* load has answered with rows, the flag and the collection left as they were.
C24_Witness ==
    /\ ~isMountedRef
    /\ event.name = "querySucceeds"
    /\ Len(event.data.rows) > 0
    /\ allCalls # NormalizedRows(event.data)
    /\ queries = {} /\ timers = {} /\ window = {}
    /\ isRefreshDisabled

\* C26: when two loads overlap, once both have completed the held
\* collection is the result of the load that was started last, in whichever
\* order the answers arrive: the outcome of the earlier load never
\* overwrites that of the later one.
C26_LastStartedLoadWins ==
    (phase = "mounted" /\ queries = {} /\ latest.status = "ok") =>
        allCalls = NormalizedRows(latest.data)

\* C27: with the consumer mounted, while a query of a load is in flight the
\* loading flag is true.
C27_LoadingWhileQueryInFlight ==
    (phase = "mounted" /\ queries # {}) => loading

\* C28: with no query in flight, a non-empty error message implies that the
\* load started last has failed.
C28_ErrorIsOfLastStartedLoad ==
    (queries = {} /\ error # "") => latest.status = "failed"

\* C29: while the consumer stays mounted and every query is answered, with
\* data or with a failure, every accepted refresh is followed by the
\* refresh-disabled flag becoming false again.
C29_RefreshIsReenabled ==
    isRefreshDisabled ~> (~isRefreshDisabled \/ phase # "mounted")

\* The timer of a refresh whose load failed has enabled refresh again.
C29_Witness ==
    /\ event.name = "timer"
    /\ phase = "mounted"
    /\ ~isRefreshDisabled
    /\ latest.id = event.id
    /\ latest.status = "failed"

\* A count: a whole number that is not negative.
IsCount(v) == v.t = "number" /\ v.d = 1 /\ v.n >= 0

\* C30: in every reachable state of the hook the stats satisfy
\* 0 <= winCount <= callsWithPnL <= totalCalls,
\* 0 <= strongBuyCount <= totalCalls and 0 <= winRate <= 100, and
\* strongBuyCount is the number of held records whose recommendation is the
\* string 'STRONG BUY'.
C30_StatsBounds ==
    /\ IsCount(stats.winCount) /\ IsCount(stats.callsWithPnL)
    /\ IsCount(stats.totalCalls) /\ IsCount(stats.strongBuyCount)
    /\ stats.winCount.n <= stats.callsWithPnL.n
    /\ stats.callsWithPnL.n <= stats.totalCalls.n
    /\ stats.strongBuyCount.n <= stats.totalCalls.n
    /\ stats.winRate.t = "number"
    /\ ~NumLess(stats.winRate, Num(0))
    /\ ~NumLess(Num(100), stats.winRate)
    /\ stats.strongBuyCount.n =
            Cardinality({i \in 1..Len(allCalls) :
                            allCalls[i].recommendation = Str(<<"STRONG BUY">>)})

\* After a second load and a change of filter, stats whose counts and rate
\* are strictly inside their bounds.
C30_Witness ==
    /\ issued > 1
    /\ Ranked
    /\ 0 < stats.winCount.n /\ stats.winCount.n < stats.callsWithPnL.n
    /\ stats.callsWithPnL.n < stats.totalCalls.n
    /\ 0 < stats.strongBuyCount.n /\ stats.strongBuyCount.n < stats.totalCalls.n
    /\ NumLess(Num(0), stats.winRate) /\ NumLess(stats.winRate, Num(100))
    /\ \E i \in 1..Len(allCalls) : allCalls[i].recommendation = Str(<<"BUY">>)

----------------------------------------------------------------------------
(* The theme provider *)

MaxToggles == 3

\* type Theme
Themes == {"light", "dark"}

\* What localStorage may hold under the key before the first provider: no
\* item, a theme, or a value edited by hand.
StoredValues == {"absent", "light", "dark", "system", "Dark", ""}

\* localStorage as the browser gives it: "ok", "readonly" where setItem throws
\* (no quota, private browsing) and "blocked" where every access throws.
StorageModes == {"ok", "readonly", "blocked"}

\* isValidTheme(value)
isValidTheme(value) == value = "light" \/ value = "dark"

\* getStoredTheme(): the stored theme, "null" for none, an invalid one or a
\* getItem that throws.
getStoredTheme ==
    IF storageMode = "blocked" THEN "null"
    ELSE LET stored == storage[THEME_STORAGE_KEY]
         IN  IF isValidTheme(stored) THEN stored ELSE "null"

\* saveTheme(theme): localStorage after the call; a setItem that throws is
\* caught and leaves it as it was.
saveTheme(t) ==
    IF storageMode = "ok"
    THEN [storage EXCEPT ![THEME_STORAGE_KEY] = t]
    ELSE storage

\* applyTheme(theme): whether the document's root has the class 'dark' after
\* the call.
applyTheme(t) == t = "dark"

InitTheme ==
    /\ call = Null
    /\ now = 0
    /\ result = Normal(Undefined)
    /\ again = Normal(Undefined)
    /\ pc = "theme"
    /\ HookCreated
    /\ store = {}
    /\ theme = "light"
    /\ themePhase = "none"
    /\ defaultTheme = "light"
    /\ storage \in {Stored(v) : v \in StoredValues}
    /\ storageMode \in StorageModes
    /\ darkClass = FALSE
    /\ toggles = 0
    /\ saved = "none"

\* ThemeProvider's first render: useState(defaultTheme), mounted false and
\* nothing rendered for the children.
ThemeProvider ==
    /\ themePhase = "none"
    /\ \E d \in Themes :
        /\ defaultTheme' = d
        /\ theme' = d
    /\ themePhase' = "rendered"
    /\ toggles' = 0
    /\ UNCHANGED <<storage, storageMode, darkClass, saved>>
    /\ UNCHANGED <<utilVars, hookVars, store>>

\* The effect that initializes the theme, for the default theme d.
InitializeTheme(d) ==
    LET storedTheme == getStoredTheme
    IN  /\ themePhase' = "mounted"
        /\ defaultTheme' = d
        /\ IF storedTheme # "null"
           THEN /\ theme' = storedTheme
                /\ darkClass' = applyTheme(storedTheme)
           ELSE /\ theme' = theme
                /\ darkClass' = applyTheme(d)
        /\ UNCHANGED <<storage, storageMode, toggles, saved>>
        /\ UNCHANGED <<utilVars, hookVars, store>>

\* The effect runs after the first render.
ThemeMount ==
    /\ themePhase = "rendered"
    /\ InitializeTheme(defaultTheme)

\* The parent renders the provider with another defaultTheme: the effect
\* runs again.
DefaultThemeChanges ==
    /\ themePhase = "mounted"
    /\ \E d \in Themes \ {defaultTheme} : InitializeTheme(d)

\* toggleTheme that saves the theme it leaves.
toggleTheme_SavesCurrent ==
    /\ themePhase = "mounted"
    /\ toggles < MaxToggles
    /\ LET newTheme == IF theme = "light" THEN "dark" ELSE "light"
       IN  /\ storage' = saveTheme(theme)
           /\ saved' = theme
           /\ darkClass' = applyTheme(newTheme)
           /\ theme' = newTheme
    /\ toggles' = toggles + 1
    /\ UNCHANGED <<themePhase, defaultTheme, storageMode>>
    /\ UNCHANGED <<utilVars, hookVars, store>>

\* toggleTheme(): offered to the children, which are rendered once mounted.
toggleTheme ==
    /\ themePhase = "mounted"
    /\ toggles < MaxToggles
    /\ LET newTheme == IF theme = "light" THEN "dark" ELSE "light"
       IN  /\ storage' = saveTheme(newTheme)
           /\ saved' = newTheme
           /\ darkClass' = applyTheme(newTheme)
           /\ theme' = newTheme
    /\ toggles' = toggles + 1
    /\ UNCHANGED <<themePhase, defaultTheme, storageMode>>
    /\ UNCHANGED <<utilVars, hookVars, store>>

\* The provider is removed: its state is gone, localStorage and the document
\* stay.
ThemeUnmount ==
    /\ themePhase = "mounted"
    /\ themePhase' = "none"
    /\ theme' = "light"
    /\ defaultTheme' = "light"
    /\ toggles' = 0
    /\ UNCHANGED <<storage, storageMode, darkClass, saved>>
    /\ UNCHANGED <<utilVars, hookVars, store>>

NextTheme ==
    \/ ThemeProvider
    \/ ThemeMount
    \/ DefaultThemeChanges
    \/ toggleTheme
    \/ ThemeUnmount

SpecTheme == InitTheme /\ [][NextTheme]_vars

====
